---- MODULE Spec2Model ----
(***************************************************************************)
(* A model of the request-handling core of github.com/claykom/website:     *)
(* the per-IP token-bucket rate limiter (internal/middleware/ratelimit.go) *)
(* with its background sweep, the RateLimit middleware around it, and the  *)
(* input validator (internal/middleware/validation.go).                    *)
(*                                                                         *)
(* Strings are sequences of one-character strings, so that slicing,        *)
(* searching and matching are computed the way the Go code computes them.  *)
(* Time is the value of time.Now(), counted in units of 30 minutes; in     *)
(* SpecChain one unit is 600ms, the router's refill interval.              *)
(*                                                                         *)
(* Spec is the rate limiter under concurrent requests and the sweep;       *)
(* SpecSlow is Spec with a refill interval longer than the sweep's hour,   *)
(* FairSpec is Spec under the scheduling of the Go runtime.                *)
(* SpecBucket is the store under calls made one after another, SpecChain   *)
(* the router's middleware chain, SpecShutdown the shutdown of main.       *)
(* SpecClientIP, SpecValidation, SpecSanitize, SpecStatic, SpecHeaders and *)
(* SpecContent apply getClientIP, the validator, the static file handler,  *)
(* the security headers and the content loader to inputs drawn from        *)
(* bounded sets.                                                           *)
(***************************************************************************)
EXTENDS Integers, Sequences, FiniteSets, TLC

\* ------------------------------------------------------------------ bounds

\* The clock stops advancing at MaxTime.
MaxTime == 3

\* At most MaxCalls requests are served in one behaviour.
MaxCalls == 3

\* The longest file name SanitizeFilename is applied to.
MaxNameLen == 4

\* content/blog holds at most MaxFiles entries.
MaxFiles == 3

\* The server has at most MaxConns requests in one behaviour.
MaxConns == 2

\* The clock of a store used by one goroutine stops at MaxClock.
MaxClock == 4

\* ------------------------------------------------------- program constants

\* time.Hour (ratelimit.go:86), in units of 30 minutes.
Hour == 2

\* The handler goroutines that serve requests concurrently.
Procs == {"h1", "h2"}

\* The goroutine started by NewRateLimitStore (ratelimit.go:33).
Sweeper == "sweep"

Free == "free"

\* RateLimit(store, maxRequests, window): the configurations a store is used
\* with.  A window is at least maxRequests ticks of the clock, so that
\* window / maxRequests is not zero; the refill interval is at most one hour
\* (router.go:83 uses 100 requests per minute).
Configs ==
    { [maxRequests |-> 1, window |-> 2],
      [maxRequests |-> 2, window |-> 3] }

\* ---------------------------------------------------------------- strings

NoStr == << >>

\* The requests the middleware is driven with: RemoteAddr, X-Forwarded-For,
\* X-Real-IP (an absent header reads as the empty string, Header.Get).
Requests ==
    { [remoteAddr |-> <<"a", ":", "1">>, xff |-> NoStr, xri |-> NoStr],
      [remoteAddr |-> <<"p", ":", "1">>, xff |-> <<"b", ",", " ", "c">>, xri |-> NoStr] }

\* min (ratelimit.go:96)
Min(a, b) == IF a < b THEN a ELSE b

\* findFirstComma (ratelimit.go:122): the index of the first ',' counted from
\* 0, or len(s).
findFirstComma(s) ==
    IF \E i \in 1..Len(s) : s[i] = ","
    THEN (CHOOSE i \in 1..Len(s) : s[i] = "," /\ \A j \in 1..(i - 1) : s[j] # ",") - 1
    ELSE Len(s)

\* getClientIP (ratelimit.go:104)
getClientIP(r) ==
    IF r.xff # NoStr THEN SubSeq(r.xff, 1, findFirstComma(r.xff))
    ELSE IF r.xri # NoStr THEN r.xri
    ELSE r.remoteAddr

\* Every key the limiter map can hold for the requests above.
Keys == { getClientIP(r) : r \in Requests }

\* ------------------------------------------------------------------ state

BucketIds == 1..MaxCalls

NoBucket == 0

\* A RateLimiter that no one refers to.
NilLimiter ==
    [tokens |-> 0, maxTokens |-> 0, refillRate |-> 0, lastRefill |-> 0, created |-> 0]

VARIABLES
    clock,      \* time.Now()
    cfg,        \* the middleware's maxRequests and window
    limiters,   \* RateLimitStore.limiters: key -> bucket, NoBucket when absent
    heap,       \* the RateLimiter objects: tokens, maxTokens, refillRate, lastRefill
                \* (and created, history)
    nextId,     \* the next RateLimiter to allocate
    rmutex,     \* RateLimitStore.mutex: its holder, or Free
    lmutex,     \* RateLimiter.mutex of each bucket: its holder, or Free
    pc,         \* where each handler goroutine is
    ip,         \* Allow's ip
    limiter,    \* Allow's limiter
    avail,      \* the outcome of limiter.tokens > 0
    spc,        \* where the sweep is
    snow,       \* cleanupStale's now
    todo,       \* the keys the sweep's range loop has still to visit
    issued,     \* how many requests have arrived
    calls,      \* history: the Allow calls decided so far, in order, by key
    served,     \* history: the responses the middleware produced
    creq,       \* getClientIP: the request it is applied to
    ckey,       \* getClientIP: its result, once applied
    vreq,       \* validator: the request (slug parameter, Content-Length)
    vslug,      \* validator: ValidateSlug's result, once applied
    vresp,      \* validator: InputValidation's response, once served
    fname,      \* SanitizeFilename: the filename it is applied to
    fout,       \* SanitizeFilename: its result, once applied
    spath,      \* SecureStaticHandler: the request's r.URL.Path
    sresp,      \* SecureStaticHandler: its response, once served
    hreq,       \* SecureHeaders: the request (r.TLS != nil, X-Forwarded-Proto)
    henv,       \* SecureHeaders: the environment's CSP_POLICY
    hpre,       \* SecureHeaders: the response headers before the middleware
    hsets,      \* SecureHeaders: the headers the wrapped handler sets
    hw,         \* SecureHeaders: w.Header()
    hpc,        \* SecureHeaders: where the handler is
    files,      \* content/blog: its directory entries, in os.ReadDir's order
    posts,      \* BlogHandler.posts
    projects,   \* PortfolioHandler.projects
    ci,         \* loadMarkdownPosts: the entry the loop is at
    cpc,        \* the content handlers: loading, sorting, serving
    clast,      \* the last request served by a content handler, and its response
    sphase,     \* main: serving, shutting down, or exited
    sconns,     \* the server's requests: not yet arrived, active, done, dropped
    selapsed,   \* the time since Shutdown's context was created, in seconds
    sexit,      \* the exit status of the process, once it has exited
    satsignal,  \* history: the requests in flight when the signal arrived
    aclock,     \* time.Now(), for a store used by one goroutine
    astore,     \* RateLimitStore.limiters of that store
    ahist,      \* history: per key, the tokens credited to its bucket
    alast       \* the last call made on that store, and its outcome

rlvars == <<clock, cfg, limiters, heap, nextId, rmutex, lmutex, pc, ip, limiter,
            avail, spc, snow, todo, issued, calls, served>>

ipvars == <<creq, ckey>>

valvars == <<vreq, vslug, vresp>>

sanvars == <<fname, fout>>

stvars == <<spath, sresp>>

hdrvars == <<hreq, henv, hpre, hsets, hw, hpc>>

cntvars == <<files, posts, projects, ci, cpc, clast>>

shutvars == <<sphase, sconns, selapsed, sexit, satsignal>>

seqvars == <<aclock, astore, ahist, alast>>

\* The variables the rate limiter does not touch.
offvars == <<ipvars, valvars, sanvars, stvars, hdrvars, cntvars, shutvars, seqvars>>

vars == <<rlvars, ipvars, valvars, sanvars, stvars, hdrvars, cntvars, shutvars,
          seqvars>>

\* The buckets the map or some goroutine still refers to.
Referenced(lim, ptr) ==
    { lim[k] : k \in Keys } \cup { ptr[p] : p \in Procs }

\* Objects no one refers to are garbage.
Collect(h, lim, ptr) ==
    [b \in BucketIds |-> IF b \in Referenced(lim, ptr) THEN h[b] ELSE NilLimiter]

\* The store NewRateLimitStore returns (ratelimit.go:26), used with
\* configuration c.
RLFresh(c) ==
    /\ clock = 0
    /\ cfg = c
    /\ limiters = [k \in Keys |-> NoBucket]
    /\ heap = [b \in BucketIds |-> NilLimiter]
    /\ nextId = 1
    /\ rmutex = Free
    /\ lmutex = [b \in BucketIds |-> Free]
    /\ pc = [p \in Procs |-> "idle"]
    /\ ip = [p \in Procs |-> NoStr]
    /\ limiter = [p \in Procs |-> NoBucket]
    /\ avail = [p \in Procs |-> FALSE]
    /\ spc = "wait"
    /\ snow = 0
    /\ todo = {}
    /\ issued = 0
    /\ calls = [k \in Keys |-> << >>]
    /\ served = {}

\* ------------------------------------------------------------------ clock

Tick ==
    /\ clock < MaxTime
    /\ clock' = clock + 1
    /\ UNCHANGED <<cfg, limiters, heap, nextId, rmutex, lmutex, pc, ip, limiter,
                   avail, spc, snow, todo, issued, calls, served, offvars>>

\* ------------------------------------------------- RateLimit and Allow

\* net/http starts a goroutine for each request; a request takes the first
\* goroutine of the model that is not serving one.
Slot(p) == IF p = "h1" THEN 1 ELSE 2

\* RateLimit's handler takes a request, extracts its key and calls Allow
\* (ratelimit.go:135-137).
Serve(p, r) ==
    /\ pc[p] = "idle"
    /\ \A q \in Procs : pc[q] = "idle" => Slot(p) <= Slot(q)
    /\ issued < MaxCalls
    /\ issued' = issued + 1
    /\ ip' = [ip EXCEPT ![p] = getClientIP(r)]
    /\ pc' = [pc EXCEPT ![p] = "rlock"]
    /\ UNCHANGED <<clock, cfg, limiters, heap, nextId, rmutex, lmutex, limiter,
                   avail, spc, snow, todo, calls, served, offvars>>

\* r.mutex.Lock() (ratelimit.go:40, 81) returns once no one holds the mutex
\* of the store.
StoreLockable == rmutex = Free

\* r.mutex.Lock() (ratelimit.go:40)
AllowLock(p) ==
    /\ pc[p] = "rlock"
    /\ StoreLockable
    /\ rmutex' = p
    /\ pc' = [pc EXCEPT ![p] = "lookup"]
    /\ UNCHANGED <<clock, cfg, limiters, heap, nextId, lmutex, ip, limiter,
                   avail, spc, snow, todo, issued, calls, served, offvars>>

\* The bucket a first call creates (ratelimit.go:43-48); created is history,
\* the time of its creation.
NewLimiter(maxRequests, window, t) ==
    [tokens |-> maxRequests,
     maxTokens |-> maxRequests,
     refillRate |-> window \div maxRequests,
     lastRefill |-> t,
     created |-> t]

\* Mutant: one limiter for all keys, the first one created.
Lookup_AnyBucket(lim, k) ==
    IF \E j \in Keys : lim[j] # NoBucket
    THEN lim[CHOOSE j \in Keys : lim[j] # NoBucket]
    ELSE NoBucket

\* The map lookup (ratelimit.go:41): the bucket stored under key k.
Lookup(lim, k) == lim[k]

\* Lookup or creation, and r.mutex.Unlock() (ratelimit.go:41-51).
AllowLookup(p) ==
    /\ pc[p] = "lookup"
    /\ rmutex = p
    /\ LET found == Lookup(limiters, ip[p])
           b == IF found # NoBucket THEN found ELSE nextId
           lim == [limiters EXCEPT ![ip[p]] = b]
           ptr == [limiter EXCEPT ![p] = b]
           h == IF found # NoBucket THEN heap
                ELSE [heap EXCEPT ![b] = NewLimiter(cfg.maxRequests, cfg.window, clock)]
       IN /\ limiters' = lim
          /\ limiter' = ptr
          /\ nextId' = IF found # NoBucket THEN nextId ELSE nextId + 1
          /\ heap' = Collect(h, lim, ptr)
    /\ rmutex' = Free
    /\ pc' = [pc EXCEPT ![p] = "llock"]
    /\ UNCHANGED <<clock, cfg, lmutex, ip, avail, spc, snow, todo,
                   issued, calls, served, offvars>>

\* Mutant: the refill is not capped at maxTokens.
Refill_NoCap(l, t) ==
    LET elapsed == t - l.lastRefill
        tokensToAdd == elapsed \div l.refillRate
    IN IF tokensToAdd > 0
       THEN [l EXCEPT !.tokens = l.tokens + tokensToAdd, !.lastRefill = t]
       ELSE l

\* Mutant: a refill credits its tokens and leaves lastRefill as it was.
Refill_KeepsLastRefill(l, t) ==
    LET elapsed == t - l.lastRefill
        tokensToAdd == elapsed \div l.refillRate
    IN IF tokensToAdd > 0
       THEN [l EXCEPT !.tokens = Min(l.maxTokens, l.tokens + tokensToAdd)]
       ELSE l

\* Mutant: every call sets lastRefill, also one that credits no token.
Refill_StampsAlways(l, t) ==
    LET elapsed == t - l.lastRefill
        tokensToAdd == elapsed \div l.refillRate
    IN IF tokensToAdd > 0
       THEN [l EXCEPT !.tokens = Min(l.maxTokens, l.tokens + tokensToAdd),
                      !.lastRefill = t]
       ELSE [l EXCEPT !.lastRefill = t]

\* The refill (ratelimit.go:58-64): the bucket l as a call at time t leaves it.
Refill(l, t) ==
    LET elapsed == t - l.lastRefill
        tokensToAdd == elapsed \div l.refillRate
    IN IF tokensToAdd > 0
       THEN [l EXCEPT !.tokens = Min(l.maxTokens, l.tokens + tokensToAdd),
                      !.lastRefill = t]
       ELSE l

\* Mutant: Allow does its bookkeeping without taking the bucket's mutex.
LimiterLockable_NoMutex(b) == TRUE

\* limiter.mutex.Lock() (ratelimit.go:53) returns once no one holds the mutex
\* of bucket b.
LimiterLockable(b) == lmutex[b] = Free

\* limiter.mutex.Lock(), now := time.Now(), the refill and the test
\* limiter.tokens > 0 (ratelimit.go:53-67).  The goroutine keeps the mutex.
AllowRefill(p) ==
    /\ pc[p] = "llock"
    /\ LimiterLockable(limiter[p])
    /\ lmutex' = [lmutex EXCEPT ![limiter[p]] = p]
    /\ LET l == Refill(heap[limiter[p]], clock)
       IN /\ heap' = [heap EXCEPT ![limiter[p]] = l]
          /\ avail' = [avail EXCEPT ![p] = (l.tokens > 0)]
          /\ calls' = [calls EXCEPT ![ip[p]] =
                          Append(@, [bucket |-> limiter[p], at |-> clock,
                                     ok |-> (l.tokens > 0)])]
    /\ pc' = [pc EXCEPT ![p] = "take"]
    /\ UNCHANGED <<clock, cfg, limiters, nextId, rmutex, ip, limiter, spc, snow,
                   todo, issued, served, offvars>>

\* Mutant: the handler falls through to next.ServeHTTP after the 429.
Response_FallsThrough(allowed) ==
    IF ~allowed
    THEN [status |-> 429, retryAfter |-> "60", handled |-> 1]
    ELSE [status |-> 0, retryAfter |-> "", handled |-> 1]

\* What RateLimit's handler does with Allow's result (ratelimit.go:137-143):
\* the status it writes (0: none, the wrapped handler answers), the
\* Retry-After header it sets, and how many times it calls next.ServeHTTP.
Response(allowed) ==
    IF ~allowed
    THEN [status |-> 429, retryAfter |-> "60", handled |-> 0]
    ELSE [status |-> 0, retryAfter |-> "", handled |-> 1]

\* limiter.tokens-- and return true, or return false; the deferred
\* limiter.mutex.Unlock() runs (ratelimit.go:54, 68-72); the handler answers
\* (ratelimit.go:137-143).
AllowReturn(p) ==
    /\ pc[p] = "take"
    /\ LET b == limiter[p]
           h == IF avail[p]
                THEN [heap EXCEPT ![b].tokens = heap[b].tokens - 1]
                ELSE heap
           ptr == [limiter EXCEPT ![p] = NoBucket]
       IN /\ heap' = Collect(h, limiters, ptr)
          /\ limiter' = ptr
          /\ lmutex' = [lmutex EXCEPT ![b] = Free]
    /\ served' = served \cup {[ok |-> avail[p], resp |-> Response(avail[p])]}
    /\ pc' = [pc EXCEPT ![p] = "idle"]
    /\ ip' = [ip EXCEPT ![p] = NoStr]
    /\ avail' = [avail EXCEPT ![p] = FALSE]
    /\ UNCHANGED <<clock, cfg, limiters, nextId, rmutex, spc, snow, todo,
                   issued, calls, offvars>>

\* ------------------------------------------------------------ cleanupStale

\* The ticker fires; r.mutex.Lock(); now := time.Now(); the range loop starts
\* over the entries of the map (ratelimit.go:80-83).
SweepBegin ==
    /\ spc = "wait"
    /\ StoreLockable
    /\ rmutex' = Sweeper
    /\ snow' = clock
    /\ todo' = { k \in Keys : limiters[k] # NoBucket }
    /\ spc' = "scan"
    /\ UNCHANGED <<clock, cfg, limiters, heap, nextId, lmutex, pc, ip, limiter,
                   avail, issued, calls, served, offvars>>

\* Whether the sweep removes bucket l (ratelimit.go:86)
Stale(l, t) == t - l.lastRefill > Hour

\* One turn of the range loop, for the next entry in the map's order:
\* limiter.mutex.Lock(), the staleness test, the delete and
\* limiter.mutex.Unlock() (ratelimit.go:83-90).  Nothing else can touch the
\* bucket while the sweep holds its mutex.
SweepEntry(k) ==
    /\ spc = "scan"
    /\ k \in todo
    /\ lmutex[limiters[k]] = Free
    /\ LET lim == IF Stale(heap[limiters[k]], snow)
                  THEN [limiters EXCEPT ![k] = NoBucket]
                  ELSE limiters
       IN /\ limiters' = lim
          /\ heap' = Collect(heap, lim, limiter)
    /\ todo' = todo \ {k}
    /\ UNCHANGED <<clock, cfg, nextId, rmutex, lmutex, pc, ip, limiter,
                   avail, spc, snow, issued, calls, served, offvars>>

\* Mutant: the sweep's pass ends without r.mutex.Unlock().
SweepEnd_NoUnlock ==
    /\ spc = "scan"
    /\ todo = {}
    /\ snow' = 0
    /\ spc' = "wait"
    /\ UNCHANGED <<clock, cfg, limiters, heap, nextId, rmutex, lmutex, pc, ip,
                   limiter, avail, todo, issued, calls, served, offvars>>

\* The range loop is over; r.mutex.Unlock() (ratelimit.go:91)
SweepEnd ==
    /\ spc = "scan"
    /\ todo = {}
    /\ rmutex' = Free
    /\ snow' = 0
    /\ spc' = "wait"
    /\ UNCHANGED <<clock, cfg, limiters, heap, nextId, lmutex, pc, ip, limiter,
                   avail, todo, issued, calls, served, offvars>>

\* ------------------------------------------------ getClientIP on its own

Addrs == { <<"a", ":", "1">>, <<"a", ":", "2">>, <<"b", ":", "1">>, <<"p", ":", "9">> }

ForwardedFors ==
    { NoStr, <<"c">>, <<"c", ",", " ", "d">>, <<"d", ",", "c">>, <<"e", "f">> }

RealIPs == { NoStr, <<"c">>, <<"g">> }

ClientRequests == [remoteAddr : Addrs, xff : ForwardedFors, xri : RealIPs]

NoReq == [remoteAddr |-> NoStr, xff |-> NoStr, xri |-> NoStr]

IPIdle ==
    /\ creq = NoReq
    /\ ckey = [done |-> FALSE, key |-> NoStr]

\* ip := getClientIP(r) (ratelimit.go:135)
ExtractIP ==
    /\ ~ckey.done
    /\ ckey' = [done |-> TRUE, key |-> getClientIP(creq)]
    /\ UNCHANGED <<creq, rlvars, valvars, sanvars, stvars, hdrvars, cntvars,
                   shutvars, seqvars>>

\* ---------------------------------------------------------- the validator

\* The characters slugs are made of, with their code points ("U+0060" stands
\* for the one character grave accent, "U+00E9" for e with an acute accent).
CodePoint(c) ==
    CASE c = "a" -> 97 [] c = "z" -> 122 [] c = "A" -> 65 [] c = "Z" -> 90
      [] c = "0" -> 48 [] c = "9" -> 57 [] c = "-" -> 45 [] c = "_" -> 95
      [] c = "." -> 46 [] c = "/" -> 47 [] c = "\\" -> 92 [] c = "@" -> 64
      [] c = "[" -> 91 [] c = "U+0060" -> 96 [] c = "{" -> 123 [] c = ":" -> 58
      [] c = " " -> 32 [] c = "\n" -> 10 [] c = "U+00E9" -> 233

Alphabet ==
    { "a", "z", "A", "Z", "0", "9", "-", "_", ".", "/", "\\", "@", "[", "U+0060", "{",
      ":", " ", "\n", "U+00E9" }

\* The bytes of a character in UTF-8.
Utf8Len(c) == IF CodePoint(c) < 128 THEN 1 ELSE 2

\* len(s), in bytes
RECURSIVE ByteLen(_)
ByteLen(s) == IF s = << >> THEN 0 ELSE Utf8Len(Head(s)) + ByteLen(Tail(s))

\* strings.Contains(s, sub)
Contains(s, sub) ==
    \E i \in 1..(Len(s) - Len(sub) + 1) : SubSeq(s, i, i + Len(sub) - 1) = sub

\* The class [a-zA-Z0-9\-_] of slugRegex (validation.go:20)
InSlugClass(c) ==
    LET n == CodePoint(c)
    IN \/ (97 <= n /\ n <= 122)
       \/ (65 <= n /\ n <= 90)
       \/ (48 <= n /\ n <= 57)
       \/ n = 45
       \/ n = 95

\* The characters of the class from position i on: how far [...]+ can match.
RECURSIVE ClassRun(_, _)
ClassRun(s, i) ==
    IF i <= Len(s) /\ InSlugClass(s[i]) THEN 1 + ClassRun(s, i + 1) ELSE 0

\* Mutant: the pattern without its $ anchor.
slugRegexMatch_Unanchored(s) == ClassRun(s, 1) >= 1

\* slugRegex.MatchString(s) for ^[a-zA-Z0-9\-_]+$ (validation.go:20, 35): the
\* class matches at least once from the start of the text, and the match
\* ends at the end of the text.
slugRegexMatch(s) ==
    LET n == ClassRun(s, 1) IN n >= 1 /\ n = Len(s)

\* The longest slug, in bytes (validation.go:26)
MaxSlugLen == 100

\* ValidateInput.ValidateSlug (validation.go:25)
ValidateSlug(slug) ==
    IF slug = << >> \/ ByteLen(slug) > MaxSlugLen THEN FALSE
    ELSE IF \/ Contains(slug, <<".", ".">>)
            \/ Contains(slug, <<"/">>)
            \/ Contains(slug, <<"\\">>) THEN FALSE
    ELSE slugRegexMatch(slug)

\* The 10MB limit on Content-Length (validation.go:76)
MaxContentLength == 10 * 1024 * 1024

\* Mutant: the Content-Length test comes before the slug test.
InputValidation_SizeFirst(slug, contentLength) ==
    IF contentLength > MaxContentLength
    THEN [status |-> 413, handled |-> 0]
    ELSE IF slug # << >> /\ ~ValidateSlug(slug)
    THEN [status |-> 400, handled |-> 0]
    ELSE [status |-> 0, handled |-> 1]

\* InputValidation's handler (validation.go:66-82): the status it writes (0:
\* none, the wrapped handler answers) and how many times it calls
\* next.ServeHTTP.
InputValidation(slug, contentLength) ==
    IF slug # << >> /\ ~ValidateSlug(slug)
    THEN [status |-> 400, handled |-> 0]
    ELSE IF contentLength > MaxContentLength
    THEN [status |-> 413, handled |-> 0]
    ELSE [status |-> 0, handled |-> 1]

\* n times the letter a
Pad(n) == [i \in 1..n |-> "a"]

\* Zero or one character.
Short == { << >> } \cup { <<c>> : c \in Alphabet }

\* The paddings that put a slug's length at 0..2 and around MaxSlugLen.
Pads == { 0, MaxSlugLen - 2, MaxSlugLen - 1, MaxSlugLen }

\* The slugs the validator is applied to.
Slugs == { pre \o Pad(n) \o post : pre \in Short, post \in Short, n \in Pads }

\* r.ContentLength: unknown (-1), none, at the limit, over it.
ContentLengths ==
    { -1, 0, MaxContentLength - 1, MaxContentLength, MaxContentLength + 1,
      11 * 1024 * 1024 }

NoResp == [status |-> -1, handled |-> 0]

ValIdle ==
    /\ vreq = [slug |-> << >>, contentLength |-> 0]
    /\ vslug = [done |-> FALSE, ok |-> FALSE]
    /\ vresp = [done |-> FALSE, resp |-> NoResp]

\* validator.ValidateSlug(slug) is called on the slug.
CallValidateSlug ==
    /\ ~vslug.done
    /\ vslug' = [done |-> TRUE, ok |-> ValidateSlug(vreq.slug)]
    /\ UNCHANGED <<vreq, vresp, rlvars, ipvars, sanvars, stvars, hdrvars, cntvars,
                   shutvars, seqvars>>

\* The request is served through InputValidation (validation.go:66).
ServeInputValidation ==
    /\ ~vresp.done
    /\ vresp' = [done |-> TRUE, resp |-> InputValidation(vreq.slug, vreq.contentLength)]
    /\ UNCHANGED <<vreq, vslug, rlvars, ipvars, sanvars, stvars, hdrvars, cntvars,
                   shutvars, seqvars>>

\* ------------------------------------------------ paths and file names

\* os.IsPathSeparator of the binary the repository builds, GOOS=linux
\* (Dockerfile:28): the slash, and not the backslash.
IsPathSeparator(c) == c = "/"

\* The elements of s between its slashes, empty ones included.
RECURSIVE SplitSlash(_)
SplitSlash(s) ==
    IF \A i \in 1..Len(s) : s[i] # "/"
    THEN <<s>>
    ELSE LET i == CHOOSE n \in 1..Len(s) :
                      s[n] = "/" /\ \A m \in 1..(n - 1) : s[m] # "/"
         IN <<SubSeq(s, 1, i - 1)>> \o SplitSlash(SubSeq(s, i + 1, Len(s)))

\* The elements joined by slashes.
RECURSIVE JoinSlash(_)
JoinSlash(segs) ==
    IF segs = << >> THEN << >>
    ELSE IF Len(segs) = 1 THEN segs[1]
    ELSE segs[1] \o <<"/">> \o JoinSlash(Tail(segs))

DotDot == <<".", ".">>

\* Clean's pass over the elements: empty and "." elements are dropped, ".."
\* removes the element before it, is dropped at the root, and is kept at the
\* start of a relative path.
RECURSIVE CleanSegs(_, _, _)
CleanSegs(segs, out, rooted) ==
    IF segs = << >> THEN out
    ELSE LET e == Head(segs)
             rest == Tail(segs)
         IN IF e = << >> \/ e = <<".">>
            THEN CleanSegs(rest, out, rooted)
            ELSE IF e = DotDot
            THEN IF out # << >> /\ out[Len(out)] # DotDot
                 THEN CleanSegs(rest, SubSeq(out, 1, Len(out) - 1), rooted)
                 ELSE IF rooted
                 THEN CleanSegs(rest, out, rooted)
                 ELSE CleanSegs(rest, Append(out, e), rooted)
            ELSE CleanSegs(rest, Append(out, e), rooted)

\* path.Clean (validation.go:41) and filepath.Clean (SecureStaticHandler):
\* the shortest path naming the same place, "." for the empty path.
Clean(p) ==
    IF p = << >> THEN <<".">>
    ELSE LET rooted == p[1] = "/"
             joined == JoinSlash(CleanSegs(SplitSlash(p), << >>, rooted))
         IN IF rooted THEN <<"/">> \o joined
            ELSE IF joined = << >> THEN <<".">>
            ELSE joined

\* p without its trailing separators.
RECURSIVE StripTrailing(_)
StripTrailing(p) ==
    IF p # << >> /\ IsPathSeparator(p[Len(p)])
    THEN StripTrailing(SubSeq(p, 1, Len(p) - 1))
    ELSE p

\* The index of the last separator of p, 0 if it has none.
LastSeparator(p) ==
    IF \E i \in 1..Len(p) : IsPathSeparator(p[i])
    THEN CHOOSE i \in 1..Len(p) :
             IsPathSeparator(p[i]) /\ \A j \in (i + 1)..Len(p) : ~IsPathSeparator(p[j])
    ELSE 0

\* filepath.Base: the last element of p; "." for the empty path, the
\* separator for a path of separators only.
Base(p) ==
    IF p = << >> THEN <<".">>
    ELSE LET q == StripTrailing(p)
             e == SubSeq(q, LastSeparator(q) + 1, Len(q))
         IN IF e = << >> THEN <<"/">> ELSE e

\* filepath.Ext: the suffix of the last element of p from its last dot on,
\* empty if that element has no dot.
Ext(p) ==
    LET from == LastSeparator(p) + 1
    IN IF \E i \in from..Len(p) : p[i] = "."
       THEN LET i == CHOOSE n \in from..Len(p) :
                         p[n] = "." /\ \A m \in (n + 1)..Len(p) : p[m] # "."
            IN SubSeq(p, i, Len(p))
       ELSE << >>

\* strings.ReplaceAll(s, c, ""), c one character.
Remove(s, c) == SelectSeq(s, LAMBDA x : x # c)

\* filepath.Base(path.Clean("/" + filename)) without its slashes and
\* backslashes (validation.go:39-48).
SanitizeFilename(filename) ==
    LET cleaned == Base(Clean(<<"/">> \o filename))
    IN Remove(Remove(cleaned, "/"), "\\")

\* The characters file names are made of.
FileChars == { "a", "b", ".", "/", "\\", ":" }

\* The file names SanitizeFilename is applied to: all up to MaxNameLen long.
Filenames == UNION { [1..n -> FileChars] : n \in 0..MaxNameLen }

SanIdle ==
    /\ fname = << >>
    /\ fout = [done |-> FALSE, name |-> << >>]

\* validator.SanitizeFilename(filename) is called.
CallSanitizeFilename ==
    /\ ~fout.done
    /\ fout' = [done |-> TRUE, name |-> SanitizeFilename(fname)]
    /\ UNCHANGED <<fname, rlvars, ipvars, valvars, stvars, hdrvars, cntvars,
                   shutvars, seqvars>>

\* strings.ToLower on one character; C, S, J, P, G and H are the upper-case
\* letters of StaticPaths.
Lower(c) ==
    CASE c = "C" -> "c" [] c = "S" -> "s" [] c = "J" -> "j" [] c = "P" -> "p"
      [] c = "G" -> "g" [] c = "H" -> "h" [] OTHER -> c

\* strings.ToLower
ToLower(s) == [i \in 1..Len(s) |-> Lower(s[i])]

\* allowedExtensions (SecureStaticHandler): .css .js .png .jpg .jpeg .gif
\* .ico .svg .woff .woff2 .webp .avif
allowedExtensions ==
    { <<".", "c", "s", "s">>,
      <<".", "j", "s">>,
      <<".", "p", "n", "g">>,
      <<".", "j", "p", "g">>,
      <<".", "j", "p", "e", "g">>,
      <<".", "g", "i", "f">>,
      <<".", "i", "c", "o">>,
      <<".", "s", "v", "g">>,
      <<".", "w", "o", "f", "f">>,
      <<".", "w", "o", "f", "f", "2">>,
      <<".", "w", "e", "b", "p">>,
      <<".", "a", "v", "i", "f">> }

\* http.Error(w, "Forbidden", http.StatusForbidden); the file server is not
\* called.
Forbidden == [status |-> 403, body |-> "Forbidden\n", served |-> << >>]

\* Mutant: the path is cleaned first and only the cleaned path is tested for
\* "..", as an earlier SecureStaticHandler did.
SecureStaticHandler_CleanFirst(path) ==
    LET cleanPath == Clean(path)
    IN IF Contains(cleanPath, DotDot) \/ cleanPath = <<".">>
       THEN Forbidden
       ELSE LET ext == ToLower(Ext(path))
            IN IF ext # << >> /\ ext \notin allowedExtensions
               THEN Forbidden
               ELSE [status |-> 0, body |-> "", served |-> <<path>>]

\* Mutant: no extension allow-list.
SecureStaticHandler_NoAllowList(path) ==
    IF \/ Contains(path, DotDot)
       \/ Contains(path, <<"\\">>)
       \/ Contains(path, <<"NUL">>)
    THEN Forbidden
    ELSE LET cleanPath == Clean(path)
         IN IF Contains(cleanPath, DotDot) \/ cleanPath = <<".">>
            THEN Forbidden
            ELSE [status |-> 0, body |-> "", served |-> <<path>>]

\* Mutant: the empty extension is looked up in the allow-list like any other.
SecureStaticHandler_ExtRequired(path) ==
    IF \/ Contains(path, DotDot)
       \/ Contains(path, <<"\\">>)
       \/ Contains(path, <<"NUL">>)
    THEN Forbidden
    ELSE LET cleanPath == Clean(path)
         IN IF Contains(cleanPath, DotDot) \/ cleanPath = <<".">>
            THEN Forbidden
            ELSE LET ext == ToLower(Ext(path))
                 IN IF ext \notin allowedExtensions
                    THEN Forbidden
                    ELSE [status |-> 0, body |-> "", served |-> <<path>>]

\* The handler SecureStaticHandler returns, on a request with r.URL.Path =
\* path: the response it writes itself (status 0: none, the file server
\* answers) and the paths it hands to fileServer.ServeHTTP.  "NUL" stands for
\* the one character \x00.
SecureStaticHandler(path) ==
    IF \/ Contains(path, DotDot)
       \/ Contains(path, <<"\\">>)
       \/ Contains(path, <<"NUL">>)
    THEN Forbidden
    ELSE LET cleanPath == Clean(path)
         IN IF Contains(cleanPath, DotDot) \/ cleanPath = <<".">>
            THEN Forbidden
            ELSE LET ext == ToLower(Ext(path))
                 IN IF ext # << >> /\ ext \notin allowedExtensions
                    THEN Forbidden
                    ELSE [status |-> 0, body |-> "", served |-> <<path>>]

\* Directory parts of request paths: rooted and relative, with "." and ".."
\* elements, a backslash, a NUL, and two dots inside a name.
StaticDirs ==
    { << >>,
      <<"/">>,
      <<"a", "/">>,
      <<"/", "a", "/">>,
      <<"/", ".", ".", "/">>,
      <<"/", "a", "/", ".", ".", "/">>,
      <<"/", ".", "/">>,
      <<".", "/">>,
      <<"/", "/">>,
      <<"/", "a", "\\">>,
      <<"/", "NUL">>,
      <<"/", ".", ".", "a", "/">>,
      <<"/", "a", "/", ".", ".">> }

\* File names without their extension: none, plain, a dot, a dotted name.
StaticStems ==
    { << >>,
      <<"a">>,
      <<".">>,
      <<"a", ".", "b">> }

\* Extensions: none, the allowed ones, allowed ones in upper case, others,
\* a lone dot, near misses, a trailing slash, double extensions.
StaticSuffixes ==
    { << >>,
      <<".", "c", "s", "s">>,
      <<".", "j", "s">>,
      <<".", "p", "n", "g">>,
      <<".", "j", "p", "g">>,
      <<".", "j", "p", "e", "g">>,
      <<".", "g", "i", "f">>,
      <<".", "i", "c", "o">>,
      <<".", "s", "v", "g">>,
      <<".", "w", "o", "f", "f">>,
      <<".", "w", "o", "f", "f", "2">>,
      <<".", "w", "e", "b", "p">>,
      <<".", "a", "v", "i", "f">>,
      <<".", "C", "S", "S">>,
      <<".", "C", "s", "s">>,
      <<".", "J", "P", "G">>,
      <<".", "p", "h", "p">>,
      <<".", "P", "H", "P">>,
      <<".", "e", "x", "e">>,
      <<".", "s", "h">>,
      <<".">>,
      <<".", "c", "s">>,
      <<".", "c", "s", "s", "s">>,
      <<".", "c", "s", "s", "/">>,
      <<".", "p", "h", "p", ".", "c", "s", "s">>,
      <<".", "c", "s", "s", ".", "p", "h", "p">> }

\* The request paths SecureStaticHandler is applied to.
StaticPaths ==
    { d \o n \o e : d \in StaticDirs, n \in StaticStems, e \in StaticSuffixes }

NoStaticResp == [status |-> -1, body |-> "", served |-> << >>]

StaticIdle ==
    /\ spath = << >>
    /\ sresp = [done |-> FALSE, resp |-> NoStaticResp]

\* The request is served by the handler SecureStaticHandler returned.
ServeStatic ==
    /\ ~sresp.done
    /\ sresp' = [done |-> TRUE, resp |-> SecureStaticHandler(spath)]
    /\ UNCHANGED <<spath, rlvars, ipvars, valvars, sanvars, hdrvars, cntvars,
                   shutvars, seqvars>>

\* ------------------------------------------------------- SecureHeaders

\* The response headers of the model; a header that is absent has the value
\* "", which is what Header().Get returns for it.
HeaderNames ==
    { "X-Content-Type-Options", "X-Frame-Options", "X-XSS-Protection",
      "Referrer-Policy", "Strict-Transport-Security", "Content-Security-Policy",
      "X-Permitted-Cross-Domain-Policies", "Cross-Origin-Embedder-Policy",
      "Cross-Origin-Opener-Policy", "Cross-Origin-Resource-Policy",
      "Server", "X-Powered-By" }

NoHeaders == [n \in HeaderNames |-> ""]

\* defaultCSP (getContentSecurityPolicy)
defaultCSP ==
    "default-src 'self'; script-src 'self'; style-src 'self' 'unsafe-inline'; img-src 'self' data: https:; font-src 'self'; connect-src 'self'; media-src 'self'; object-src 'none'; child-src 'none'; frame-src 'none'; worker-src 'none'; frame-ancestors 'none'; form-action 'self'; base-uri 'self'; manifest-src 'self'"

\* getContentSecurityPolicy: CSP_POLICY if set, else the default.
getContentSecurityPolicy(env) == IF env # "" THEN env ELSE defaultCSP

\* Mutant: only a TLS connection counts as HTTPS.
IsHTTPS_TLSOnly(r) == r.tls

\* r.TLS != nil || r.Header.Get("X-Forwarded-Proto") == "https"
IsHTTPS(r) == r.tls \/ r.proto = "https"

\* The headers SecureHeaders sets, on the response headers h.
SetSecurityHeaders(h, r, env) ==
    [n \in HeaderNames |->
        CASE n = "X-Content-Type-Options" -> "nosniff"
          [] n = "X-Frame-Options" -> "DENY"
          [] n = "X-XSS-Protection" -> "1; mode=block"
          [] n = "Referrer-Policy" -> "strict-origin-when-cross-origin"
          [] n = "Strict-Transport-Security" ->
                 IF IsHTTPS(r) THEN "max-age=31536000; includeSubDomains; preload"
                 ELSE h[n]
          [] n = "Content-Security-Policy" -> getContentSecurityPolicy(env)
          [] n = "X-Permitted-Cross-Domain-Policies" -> "none"
          [] n = "Cross-Origin-Embedder-Policy" -> "require-corp"
          [] n = "Cross-Origin-Opener-Policy" -> "same-origin"
          [] n = "Cross-Origin-Resource-Policy" -> "same-origin"
          [] OTHER -> h[n]]

\* Mutant: Server and X-Powered-By are left as they are.
RemoveServerInfo_Skipped(h) == h

\* w.Header().Del("Server"); w.Header().Del("X-Powered-By")
RemoveServerInfo(h) == [h EXCEPT !["Server"] = "", !["X-Powered-By"] = ""]

\* The requests: with and without TLS, X-Forwarded-Proto absent or given.
HeaderRequests == [tls : BOOLEAN, proto : {"", "https", "http", "HTTPS"}]

\* Response headers present before the middleware runs.
PresetHeaders ==
    { [NoHeaders EXCEPT !["Server"] = a, !["X-Powered-By"] = b,
                        !["Strict-Transport-Security"] = c] :
        a \in {"", "Apache/2.4.41"}, b \in {"", "PHP/7.4"}, c \in {"", "max-age=60"} }

\* What the wrapped handler sets: nothing, Server, X-Powered-By, or both.
HandlerHeaders ==
    { [NoHeaders EXCEPT !["Server"] = a, !["X-Powered-By"] = b] :
        a \in {"", "Nginx/1.18"}, b \in {"", "Express"} }

HdrIdle ==
    /\ hreq = [tls |-> FALSE, proto |-> ""]
    /\ henv = ""
    /\ hpre = NoHeaders
    /\ hsets = NoHeaders
    /\ hw = NoHeaders
    /\ hpc = "idle"

\* SecureHeaders' handler up to the call of next (part_003:12-35).
SecureHeadersBefore ==
    /\ hpc = "start"
    /\ hw' = RemoveServerInfo(SetSecurityHeaders(hw, hreq, henv))
    /\ hpc' = "next"
    /\ UNCHANGED <<hreq, henv, hpre, hsets, rlvars, ipvars, valvars, sanvars, stvars, cntvars,
                   shutvars, seqvars>>

\* next.ServeHTTP(w, r) (part_003:37): the wrapped handler sets its headers.
SecureHeadersNext ==
    /\ hpc = "next"
    /\ hw' = [n \in HeaderNames |-> IF hsets[n] # "" THEN hsets[n] ELSE hw[n]]
    /\ hpc' = "done"
    /\ UNCHANGED <<hreq, henv, hpre, hsets, rlvars, ipvars, valvars, sanvars, stvars, cntvars,
                   shutvars, seqvars>>

\* ------------------------------------------------- blog and portfolio

\* time.Time{}: the PublishedAt of a post without a date.
ZeroTime == 0

\* models.BlogPost{} (src: history, the directory entry a post was loaded
\* from, 0 for none).
EmptyPost ==
    [id |-> "", slug |-> "", publishedAt |-> ZeroTime, published |-> FALSE, src |-> 0]

\* A post file: front matter between two "---" lines, with slug and date.
PostFile(slug, date) ==
    [isDir |-> FALSE, md |-> TRUE, readable |-> TRUE, parts |-> 3,
     slug |-> slug, date |-> date]

\* The directory entries of content/blog: a subdirectory, a file that is not
\* .md, a .md file that cannot be read, a .md file without the "---"
\* delimiters (bytes.SplitN gives one part), and post files.
DirEntries ==
    { [isDir |-> TRUE, md |-> FALSE, readable |-> FALSE, parts |-> 0, slug |-> "", date |-> ZeroTime],
      [isDir |-> FALSE, md |-> FALSE, readable |-> TRUE, parts |-> 3, slug |-> "a", date |-> 1],
      [isDir |-> FALSE, md |-> TRUE, readable |-> FALSE, parts |-> 0, slug |-> "", date |-> ZeroTime],
      [isDir |-> FALSE, md |-> TRUE, readable |-> TRUE, parts |-> 1, slug |-> "", date |-> ZeroTime] }
    \cup { PostFile(sl, d) : sl \in {"a", "b"}, d \in {1, 2} }

\* The directories: up to MaxFiles entries.
Directories == UNION { [1..n -> DirEntries] : n \in 0..MaxFiles }

\* parseMarkdownFile (blog.go:74-138): the post and whether err is non-nil.
\* With fewer than three parts it returns the err of os.ReadFile, which is
\* nil there.
parseMarkdownFile(f) ==
    IF ~f.readable
    THEN [post |-> EmptyPost, err |-> TRUE]
    ELSE IF f.parts < 3
    THEN [post |-> EmptyPost, err |-> FALSE]
    ELSE [post |-> [id |-> f.slug, slug |-> f.slug, publishedAt |-> f.date,
                    published |-> TRUE, src |-> 0],
          err |-> FALSE]

\* NewPortfolioHandler's projects.
PortfolioProjects ==
    << [id |-> "1", title |-> "Personal Website & Portfolio",
        slug |-> "personal-website-portfolio", featured |-> TRUE] >>

NoPage == [kind |-> "none", arg |-> << >>]

NoContentResp == [status |-> -1, ctype |-> "", body |-> << >>, page |-> NoPage]

CntIdle ==
    /\ files = << >>
    /\ posts = << >>
    /\ projects = << >>
    /\ ci = 0
    /\ cpc = "idle"
    /\ clast = [handler |-> "none", slug |-> "", resp |-> NoContentResp]

\* os.ReadDir fails: loadMarkdownPosts returns the error, NewBlogHandler
\* logs it and returns the handler without posts (blog.go:34-36, 45-48).
ReadDirFails ==
    /\ cpc = "load" /\ ci = 1
    /\ cpc' = "serving"
    /\ UNCHANGED <<files, posts, projects, ci, clast, rlvars, ipvars, valvars,
                   sanvars, stvars, hdrvars, shutvars, seqvars>>

\* One turn of loadMarkdownPosts' loop (blog.go:50-63).
LoadEntry ==
    /\ cpc = "load" /\ ci <= Len(files)
    /\ LET file == files[ci]
           parsed == parseMarkdownFile(file)
       IN posts' = IF file.isDir \/ ~file.md THEN posts
                   ELSE IF parsed.err THEN posts
                   ELSE Append(posts, [parsed.post EXCEPT !.src = ci])
    /\ ci' = ci + 1
    /\ UNCHANGED <<files, projects, cpc, clast, rlvars, ipvars, valvars,
                   sanvars, stvars, hdrvars, shutvars, seqvars>>

\* The orders sort.Slice may leave ps in: newest first, posts of the same
\* date in any order (the sort is not stable).
SortedByDate(ps) ==
    LET n == Len(ps)
        Bijections == { f \in [1..n -> 1..n] : \A i, j \in 1..n : f[i] = f[j] => i = j }
    IN { [i \in 1..n |-> ps[f[i]]] : f \in
             { g \in Bijections :
                 \A i, j \in 1..n : i < j => ps[g[i]].publishedAt >= ps[g[j]].publishedAt } }

\* The sort after the loop (blog.go:66-68); NewBlogHandler returns.
SortPosts ==
    /\ cpc = "load" /\ ci > Len(files)
    /\ posts' \in SortedByDate(posts)
    /\ cpc' = "serving"
    /\ UNCHANGED <<files, projects, ci, clast, rlvars, ipvars, valvars,
                   sanvars, stvars, hdrvars, shutvars, seqvars>>

\* Mutant: errors are answered as JSON, as the retired API handlers did.
httpError_AsJSON(msg, code) ==
    [status |-> code, ctype |-> "application/json", body |-> msg, page |-> NoPage]

\* http.Error(w, msg, code): a text/plain response, the message (here its
\* words) and a newline.
httpError(msg, code) ==
    [status |-> code, ctype |-> "text/plain; charset=utf-8",
     body |-> msg \o <<"\n">>, page |-> NoPage]

\* component.Render(r.Context(), w): the page, or 500 when rendering fails.
Rendered(kind, arg, ok) ==
    IF ok
    THEN [status |-> 200, ctype |-> "text/html; charset=utf-8", body |-> << >>,
          page |-> [kind |-> kind, arg |-> arg]]
    ELSE httpError(<<"Error", "rendering", "page">>, 500)

\* Mutant: the loop keeps the last match.
FindPost_LastMatch(ps, slug) ==
    IF \E i \in 1..Len(ps) : ps[i].slug = slug /\ ps[i].published
    THEN CHOOSE i \in 1..Len(ps) :
             /\ ps[i].slug = slug /\ ps[i].published
             /\ \A j \in (i + 1)..Len(ps) : ~(ps[j].slug = slug /\ ps[j].published)
    ELSE 0

\* GetPost's loop (blog.go:183-192): the index of the first published post
\* with the slug, 0 if there is none.
FindPost(ps, slug) ==
    IF \E i \in 1..Len(ps) : ps[i].slug = slug /\ ps[i].published
    THEN CHOOSE i \in 1..Len(ps) :
             /\ ps[i].slug = slug /\ ps[i].published
             /\ \A j \in 1..(i - 1) : ~(ps[j].slug = slug /\ ps[j].published)
    ELSE 0

\* GetProject's loop (portfolio.go:61-70).
FindProject(ps, slug) ==
    IF \E i \in 1..Len(ps) : ps[i].slug = slug
    THEN CHOOSE i \in 1..Len(ps) :
             ps[i].slug = slug /\ \A j \in 1..(i - 1) : ps[j].slug # slug
    ELSE 0

\* ListPosts (blog.go:156-170): h.posts after the call, and the response.
ListPosts(ps, ok) ==
    [posts |-> ps,
     resp |-> Rendered("BlogList", SelectSeq(ps, LAMBDA x : x.published), ok)]

\* Mutant: the post found is moved to the front of h.posts.
GetPost_MoveToFront(ps, slug, ok) ==
    LET i == FindPost(ps, slug)
    IN IF slug = "" THEN [posts |-> ps, resp |-> httpError(<<"Slug", "parameter", "is", "required">>, 400)]
       ELSE IF i # 0
       THEN [posts |-> <<ps[i]>> \o SubSeq(ps, 1, i - 1) \o SubSeq(ps, i + 1, Len(ps)),
             resp |-> Rendered("BlogPost", <<ps[i]>>, ok)]
       ELSE [posts |-> ps, resp |-> httpError(<<"Blog", "post", "not", "found">>, 404)]

\* GetPost (blog.go:173-195)
GetPost(ps, slug, ok) ==
    [posts |-> ps,
     resp |-> IF slug = ""
              THEN httpError(<<"Slug", "parameter", "is", "required">>, 400)
              ELSE IF FindPost(ps, slug) # 0
              THEN Rendered("BlogPost", <<ps[FindPost(ps, slug)]>>, ok)
              ELSE httpError(<<"Blog", "post", "not", "found">>, 404)]

\* ListProjects (portfolio.go:42-48)
ListProjects(ps, ok) ==
    [projects |-> ps, resp |-> Rendered("PortfolioList", ps, ok)]

\* GetProject (portfolio.go:51-73)
GetProject(ps, slug, ok) ==
    [projects |-> ps,
     resp |-> IF slug = ""
              THEN httpError(<<"Slug", "parameter", "is", "required">>, 400)
              ELSE IF FindProject(ps, slug) # 0
              THEN Rendered("ProjectDetail", <<ps[FindProject(ps, slug)]>>, ok)
              ELSE httpError(<<"Project", "not", "found">>, 404)]

\* The slugs requests ask for.
RequestSlugs == { "", "a", "b", "unknown-slug", "personal-website-portfolio" }

\* GET /blog
ServeListPosts ==
    /\ cpc = "serving"
    /\ \E ok \in BOOLEAN :
          LET r == ListPosts(posts, ok)
          IN /\ posts' = r.posts
             /\ clast' = [handler |-> "ListPosts", slug |-> "", resp |-> r.resp]
    /\ UNCHANGED <<files, projects, ci, cpc, rlvars, ipvars, valvars, sanvars,
                   stvars, hdrvars, shutvars, seqvars>>

\* GET /blog/{slug}
ServeGetPost ==
    /\ cpc = "serving"
    /\ \E slug \in RequestSlugs, ok \in BOOLEAN :
          LET r == GetPost(posts, slug, ok)
          IN /\ posts' = r.posts
             /\ clast' = [handler |-> "GetPost", slug |-> slug, resp |-> r.resp]
    /\ UNCHANGED <<files, projects, ci, cpc, rlvars, ipvars, valvars, sanvars,
                   stvars, hdrvars, shutvars, seqvars>>

\* GET /portfolio
ServeListProjects ==
    /\ cpc = "serving"
    /\ \E ok \in BOOLEAN :
          LET r == ListProjects(projects, ok)
          IN /\ projects' = r.projects
             /\ clast' = [handler |-> "ListProjects", slug |-> "", resp |-> r.resp]
    /\ UNCHANGED <<files, posts, ci, cpc, rlvars, ipvars, valvars, sanvars,
                   stvars, hdrvars, shutvars, seqvars>>

\* GET /portfolio/{slug}
ServeGetProject ==
    /\ cpc = "serving"
    /\ \E slug \in RequestSlugs, ok \in BOOLEAN :
          LET r == GetProject(projects, slug, ok)
          IN /\ projects' = r.projects
             /\ clast' = [handler |-> "GetProject", slug |-> slug, resp |-> r.resp]
    /\ UNCHANGED <<files, posts, ci, cpc, rlvars, ipvars, valvars, sanvars,
                   stvars, hdrvars, shutvars, seqvars>>

\* ------------------------------------------------------ main: shutdown

\* The deadline of Shutdown's context, in seconds (main.go:60).
ShutdownTimeout == 30

ConnIds == 1..MaxConns

NoExit == -1

ShutIdle ==
    /\ sphase = "off"
    /\ sconns = [c \in ConnIds |-> "none"]
    /\ selapsed = 0
    /\ sexit = NoExit
    /\ satsignal = {}

\* The requests whose handler is running.
Active(conns) == { c \in ConnIds : conns[c] = "active" }

\* The process ends: a handler still running does not complete.
Killed(conns) ==
    [c \in ConnIds |-> IF conns[c] = "active" THEN "dropped" ELSE conns[c]]

\* The server accepts a request and starts its handler (main.go:38-50).  The
\* listeners are open until Shutdown closes them.
Accept(c) ==
    /\ sphase = "serving"
    /\ sconns[c] = "none"
    /\ \A d \in ConnIds : sconns[d] = "none" => c <= d
    /\ sconns' = [sconns EXCEPT ![c] = "active"]
    /\ UNCHANGED <<sphase, selapsed, sexit, satsignal, rlvars, ipvars, valvars,
                   sanvars, stvars, hdrvars, cntvars, seqvars>>

\* A handler returns and its response is written.
Complete(c) ==
    /\ sphase \in {"serving", "shutdown"}
    /\ sconns[c] = "active"
    /\ sconns' = [sconns EXCEPT ![c] = "done"]
    /\ UNCHANGED <<sphase, selapsed, sexit, satsignal, rlvars, ipvars, valvars,
                   sanvars, stvars, hdrvars, cntvars, seqvars>>

\* SIGINT or SIGTERM arrives: <-quit returns, the context with its deadline is
\* created and srv.Shutdown(ctx) closes the listeners (main.go:55-64).
Signal ==
    /\ sphase = "serving"
    /\ sphase' = "shutdown"
    /\ selapsed' = 0
    /\ satsignal' = Active(sconns)
    /\ UNCHANGED <<sconns, sexit, rlvars, ipvars, valvars, sanvars, stvars,
                   hdrvars, cntvars, seqvars>>

\* ctx.Done() is closed: the deadline of context.WithTimeout has come
\* (main.go:60).
Expired(elapsed) == elapsed >= ShutdownTimeout

\* A second passes while Shutdown waits.
ShutdownWait ==
    /\ sphase = "shutdown"
    /\ ~Expired(selapsed)
    /\ selapsed' = selapsed + 1
    /\ UNCHANGED <<sphase, sconns, sexit, satsignal, rlvars, ipvars, valvars,
                   sanvars, stvars, hdrvars, cntvars, seqvars>>

\* Mutant: Shutdown does not wait for the requests in flight, as srv.Close().
Quiescent_Always(conns) == TRUE

\* Shutdown finds no connection that is serving a request (srv.Shutdown,
\* main.go:64).
Quiescent(conns) == Active(conns) = {}

\* Shutdown returns once no request is in flight, with the error of closing
\* the listeners, if any; on an error log.Fatalf exits with status 1, else
\* main returns (main.go:64-69).
ShutdownReturns ==
    /\ sphase = "shutdown"
    /\ Quiescent(sconns)
    /\ \E lnerr \in BOOLEAN : sexit' = IF lnerr THEN 1 ELSE 0
    /\ sconns' = Killed(sconns)
    /\ sphase' = "exited"
    /\ UNCHANGED <<selapsed, satsignal, rlvars, ipvars, valvars, sanvars, stvars,
                   hdrvars, cntvars, seqvars>>

\* The context expires first: Shutdown returns ctx.Err() and log.Fatalf
\* exits with status 1, whatever is still running (main.go:64-66).
ShutdownExpires ==
    /\ sphase = "shutdown"
    /\ Expired(selapsed)
    /\ sexit' = 1
    /\ sconns' = Killed(sconns)
    /\ sphase' = "exited"
    /\ UNCHANGED <<selapsed, satsignal, rlvars, ipvars, valvars, sanvars, stvars,
                   hdrvars, cntvars, seqvars>>

\* ------------------------------------------- the store used sequentially

\* No entry in the map.
Absent == [tokens |-> -1, maxTokens |-> 0, refillRate |-> 0, lastRefill |-> 0, created |-> 0]

\* History of an entry: the arguments of the call that created it, the
\* tokens credited to it since, whether a credit has brought it to maxTokens,
\* and the time of the last call.
NoHist ==
    [first |-> [maxRequests |-> 0, window |-> 0], credited |-> 0, capped |-> FALSE,
     lastCall |-> 0]

NoCall ==
    [key |-> NoStr, maxRequests |-> 0, window |-> 0, at |-> 0, existed |-> FALSE,
     before |-> Absent, after |-> Absent, ok |-> FALSE]

SeqIdle ==
    /\ aclock = 0
    /\ astore = [k \in Keys |-> Absent]
    /\ ahist = [k \in Keys |-> NoHist]
    /\ alast = NoCall

\* The arguments Allow is called with: one or two requests per window, a
\* refill interval of one or two ticks.
AllowConfigs ==
    { [maxRequests |-> 1, window |-> 2],
      [maxRequests |-> 2, window |-> 2],
      [maxRequests |-> 2, window |-> 4] }

\* Mutant: a call sets maxTokens and refillRate from its own arguments.
Allow_Reconfigures(lim, k, maxRequests, window, t) ==
    LET l0 == IF lim[k] # Absent
              THEN [lim[k] EXCEPT !.maxTokens = maxRequests,
                                  !.refillRate = window \div maxRequests]
              ELSE NewLimiter(maxRequests, window, t)
        l1 == Refill(l0, t)
        ok == l1.tokens > 0
        l2 == IF ok THEN [l1 EXCEPT !.tokens = l1.tokens - 1] ELSE l1
    IN [limiters |-> [lim EXCEPT ![k] = l2], ok |-> ok]

\* RateLimitStore.Allow (ratelimit.go:39-73) run by one goroutine at time t:
\* the map after the call, and the result.
Allow(lim, k, maxRequests, window, t) ==
    LET exists == lim[k] # Absent
        l0 == IF exists THEN lim[k] ELSE NewLimiter(maxRequests, window, t)
        l1 == Refill(l0, t)
        ok == l1.tokens > 0
        l2 == IF ok THEN [l1 EXCEPT !.tokens = l1.tokens - 1] ELSE l1
    IN [limiters |-> [lim EXCEPT ![k] = l2], ok |-> ok]

\* tokensToAdd (ratelimit.go:58-59)
TokensToAdd(l, t) == (t - l.lastRefill) \div l.refillRate

\* The history of bucket l after a call at time t.
Credit(h, l, t) ==
    [h EXCEPT !.credited = h.credited + TokensToAdd(l, t),
              !.capped = \/ h.capped
                         \/ /\ TokensToAdd(l, t) > 0
                            /\ l.tokens + TokensToAdd(l, t) >= l.maxTokens,
              !.lastCall = t]

\* time.Now() advances.
StoreTick ==
    /\ aclock < MaxClock
    /\ aclock' = aclock + 1
    /\ UNCHANGED <<astore, ahist, alast, rlvars, ipvars, valvars, sanvars, stvars,
                   hdrvars, cntvars, shutvars>>

\* store.Allow(ip, maxRequests, window) is called and returns.
CallAllow ==
    /\ \E k \in Keys, c \in AllowConfigs :
          LET r == Allow(astore, k, c.maxRequests, c.window, aclock)
              existed == astore[k] # Absent
              l0 == IF existed THEN astore[k]
                    ELSE NewLimiter(c.maxRequests, c.window, aclock)
              h0 == IF existed THEN ahist[k] ELSE [NoHist EXCEPT !.first = c]
          IN /\ astore' = r.limiters
             /\ ahist' = [ahist EXCEPT ![k] = Credit(h0, l0, aclock)]
             /\ alast' = [key |-> k, maxRequests |-> c.maxRequests,
                          window |-> c.window, at |-> aclock, existed |-> existed,
                          before |-> astore[k], after |-> r.limiters[k], ok |-> r.ok]
    /\ UNCHANGED <<aclock, rlvars, ipvars, valvars, sanvars, stvars, hdrvars, cntvars,
                   shutvars>>

\* One pass of cleanupStale (ratelimit.go:80-92) with no call under way.
Sweep ==
    /\ \E k \in Keys : astore[k] # Absent /\ Stale(astore[k], aclock)
    /\ astore' = [k \in Keys |->
                     IF astore[k] # Absent /\ Stale(astore[k], aclock)
                     THEN Absent ELSE astore[k]]
    /\ ahist' = [k \in Keys |-> IF astore'[k] = Absent THEN NoHist ELSE ahist[k]]
    /\ alast' = NoCall
    /\ UNCHANGED <<aclock, rlvars, ipvars, valvars, sanvars, stvars, hdrvars, cntvars,
                   shutvars>>

\* ------------------------------------------------- the middleware chain

\* The router's limit (router.go:83): 100 requests per time.Minute.  Where
\* the chain is served a tick of the clock is 600 milliseconds, the refill
\* interval of that limit, and a minute is 100 ticks.
RouterMaxRequests == 100

RouterWindow == 100

\* Mutant: the rate limiter is installed before the validator.
Middlewares_RateLimitFirst ==
    << "Recovery", "Logger", "SecureHeaders", "RateLimit", "InputValidation" >>

\* The middlewares in the order of the r.Use calls (router.go:78-83): mux
\* runs them in the order they were added.
Middlewares ==
    << "Recovery", "Logger", "SecureHeaders", "InputValidation", "RateLimit" >>

\* The requests: who sends them, the slug parameter, the Content-Length.
ChainRequests ==
    [r : Requests,
     slug : { << >>, <<"a">>, <<".", ".">> },
     contentLength : { 0, MaxContentLength + 1 }]

\* The request passes through the middlewares from the i-th on, at time t,
\* with the limiter map lim: the map afterwards, the status a middleware
\* wrote (0: none), how often the route's handler ran, and the middlewares
\* that ran.  Recovery, Logger and SecureHeaders always call next.
RECURSIVE ServeHTTP(_, _, _, _, _, _)
ServeHTTP(mws, i, req, lim, t, ran) ==
    IF i > Len(mws)
    THEN [limiters |-> lim, status |-> 0, handled |-> 1, ran |-> ran]
    ELSE IF mws[i] = "InputValidation"
    THEN LET v == InputValidation(req.slug, req.contentLength)
         IN IF v.handled = 0
            THEN [limiters |-> lim, status |-> v.status, handled |-> 0,
                  ran |-> Append(ran, mws[i])]
            ELSE ServeHTTP(mws, i + 1, req, lim, t, Append(ran, mws[i]))
    ELSE IF mws[i] = "RateLimit"
    THEN LET a == Allow(lim, getClientIP(req.r), RouterMaxRequests, RouterWindow, t)
             w == Response(a.ok)
         IN IF w.handled = 0
            THEN [limiters |-> a.limiters, status |-> w.status, handled |-> 0,
                  ran |-> Append(ran, mws[i])]
            ELSE ServeHTTP(mws, i + 1, req, a.limiters, t, Append(ran, mws[i]))
    ELSE ServeHTTP(mws, i + 1, req, lim, t, Append(ran, mws[i]))

NoRequest ==
    [n |-> 0, at |-> 0,
     req |-> [r |-> [remoteAddr |-> NoStr, xff |-> NoStr, xri |-> NoStr],
              slug |-> << >>, contentLength |-> 0],
     before |-> [k \in Keys |-> Absent],
     resp |-> [limiters |-> [k \in Keys |-> Absent], status |-> -1, handled |-> 0,
               ran |-> << >>]]

\* The router serves a request of a matched route through its middlewares.
ServeRequest ==
    /\ alast.n < MaxCalls
    /\ \E req \in ChainRequests :
          LET resp == ServeHTTP(Middlewares, 1, req, astore, aclock, << >>)
          IN /\ astore' = resp.limiters
             /\ alast' = [n |-> alast.n + 1, at |-> aclock, req |-> req,
                          before |-> astore, resp |-> resp]
    /\ UNCHANGED <<aclock, ahist, rlvars, ipvars, valvars, sanvars, stvars, hdrvars,
                   cntvars, shutvars>>

\* ---------------------------------------------------------- specification

Init ==
    /\ \E c \in Configs : RLFresh(c)
    /\ IPIdle
    /\ ValIdle
    /\ SanIdle
    /\ StaticIdle
    /\ HdrIdle
    /\ CntIdle
    /\ ShutIdle
    /\ SeqIdle

Next ==
    \/ Tick
    \/ \E p \in Procs, r \in Requests : Serve(p, r)
    \/ \E p \in Procs : AllowLock(p)
    \/ \E p \in Procs : AllowLookup(p)
    \/ \E p \in Procs : AllowRefill(p)
    \/ \E p \in Procs : AllowReturn(p)
    \/ SweepBegin
    \/ \E k \in Keys : SweepEntry(k)
    \/ SweepEnd

\* The rate limiter: concurrent requests, the clock and the sweep.
Spec == Init /\ [][Next]_vars

AnyConfig == CHOOSE c \in Configs : TRUE

\* The scheduler runs every goroutine that can take a step, and a goroutine
\* that waits in r.mutex.Lock() gets the mutex when it is free again and
\* again (sync.Mutex hands a starving waiter the mutex).  The ticker of the
\* sweep and the arrival of requests are under no obligation.
Fairness ==
    /\ \A p \in Procs :
          /\ SF_vars(AllowLock(p))
          /\ WF_vars(AllowLookup(p))
          /\ WF_vars(AllowRefill(p))
          /\ WF_vars(AllowReturn(p))
    /\ WF_vars(\E k \in Keys : SweepEntry(k))
    /\ WF_vars(SweepEnd)

\* Which locks a goroutine waits for does not depend on maxRequests and
\* window: the store is used with one configuration.
InitFair ==
    /\ RLFresh(AnyConfig)
    /\ IPIdle
    /\ ValIdle
    /\ SanIdle
    /\ StaticIdle
    /\ HdrIdle
    /\ CntIdle
    /\ ShutIdle
    /\ SeqIdle

\* The rate limiter under fair scheduling.
FairSpec == InitFair /\ [][Next]_vars /\ Fairness

InitClientIP ==
    /\ RLFresh(AnyConfig)
    /\ creq \in ClientRequests
    /\ ckey = [done |-> FALSE, key |-> NoStr]
    /\ ValIdle
    /\ SanIdle
    /\ StaticIdle
    /\ HdrIdle
    /\ CntIdle
    /\ ShutIdle
    /\ SeqIdle

NextClientIP == ExtractIP

\* getClientIP applied to each request of ClientRequests.
SpecClientIP == InitClientIP /\ [][NextClientIP]_vars

InitValidation ==
    /\ RLFresh(AnyConfig)
    /\ IPIdle
    /\ vreq \in [slug : Slugs, contentLength : ContentLengths]
    /\ vslug = [done |-> FALSE, ok |-> FALSE]
    /\ vresp = [done |-> FALSE, resp |-> NoResp]
    /\ SanIdle
    /\ StaticIdle
    /\ HdrIdle
    /\ CntIdle
    /\ ShutIdle
    /\ SeqIdle

NextValidation ==
    \/ CallValidateSlug
    \/ ServeInputValidation

\* The validator applied to each slug and Content-Length.
SpecValidation == InitValidation /\ [][NextValidation]_vars

InitSanitize ==
    /\ RLFresh(AnyConfig)
    /\ IPIdle
    /\ ValIdle
    /\ fname \in Filenames
    /\ fout = [done |-> FALSE, name |-> << >>]
    /\ StaticIdle
    /\ HdrIdle
    /\ CntIdle
    /\ ShutIdle
    /\ SeqIdle

NextSanitize == CallSanitizeFilename

\* SanitizeFilename applied to each file name of Filenames.
SpecSanitize == InitSanitize /\ [][NextSanitize]_vars

InitStatic ==
    /\ RLFresh(AnyConfig)
    /\ IPIdle
    /\ ValIdle
    /\ SanIdle
    /\ spath \in StaticPaths
    /\ sresp = [done |-> FALSE, resp |-> NoStaticResp]
    /\ HdrIdle
    /\ CntIdle
    /\ ShutIdle
    /\ SeqIdle

NextStatic == ServeStatic

\* SecureStaticHandler applied to each request path of StaticPaths.
SpecStatic == InitStatic /\ [][NextStatic]_vars

InitHeaders ==
    /\ RLFresh(AnyConfig)
    /\ IPIdle
    /\ ValIdle
    /\ SanIdle
    /\ StaticIdle
    /\ hreq \in HeaderRequests
    /\ henv \in {"", "default-src 'none'; script-src 'self'"}
    /\ hpre \in PresetHeaders
    /\ hsets \in HandlerHeaders
    /\ hw = hpre
    /\ hpc = "start"
    /\ CntIdle
    /\ ShutIdle
    /\ SeqIdle

NextHeaders ==
    \/ SecureHeadersBefore
    \/ SecureHeadersNext

\* SecureHeaders around a handler, for each request, preset and handler.
SpecHeaders == InitHeaders /\ [][NextHeaders]_vars

\* NewBlogHandler and NewPortfolioHandler are about to run (router.go:70-71).
InitContent ==
    /\ RLFresh(AnyConfig)
    /\ IPIdle
    /\ ValIdle
    /\ SanIdle
    /\ StaticIdle
    /\ HdrIdle
    /\ files \in Directories
    /\ posts = << >>
    /\ projects = PortfolioProjects
    /\ ci = 1
    /\ cpc = "load"
    /\ clast = [handler |-> "none", slug |-> "", resp |-> NoContentResp]
    /\ ShutIdle
    /\ SeqIdle

NextContent ==
    \/ ReadDirFails
    \/ LoadEntry
    \/ SortPosts
    \/ ServeListPosts
    \/ ServeGetPost
    \/ ServeListProjects
    \/ ServeGetProject

\* The blog and portfolio handlers: posts loaded at startup, then requests.
SpecContent == InitContent /\ [][NextContent]_vars

\* A store used with one request per 90 minutes: the refill interval is
\* longer than the sweep's hour.
SlowConfig == [maxRequests |-> 1, window |-> 3]

InitSlow ==
    /\ RLFresh(SlowConfig)
    /\ IPIdle
    /\ ValIdle
    /\ SanIdle
    /\ StaticIdle
    /\ HdrIdle
    /\ CntIdle
    /\ ShutIdle
    /\ SeqIdle

\* The rate limiter with a slow refill: concurrent requests, the clock and
\* the sweep.
SpecSlow == InitSlow /\ [][Next]_vars

\* The server is running its handlers (main.go:38-50).
InitShutdown ==
    /\ RLFresh(AnyConfig)
    /\ IPIdle
    /\ ValIdle
    /\ SanIdle
    /\ StaticIdle
    /\ HdrIdle
    /\ CntIdle
    /\ sphase = "serving"
    /\ sconns = [c \in ConnIds |-> "none"]
    /\ selapsed = 0
    /\ sexit = NoExit
    /\ satsignal = {}
    /\ SeqIdle

NextShutdown ==
    \/ \E c \in ConnIds : Accept(c)
    \/ \E c \in ConnIds : Complete(c)
    \/ Signal
    \/ ShutdownWait
    \/ ShutdownReturns
    \/ ShutdownExpires

\* main from the start of the server to the exit of the process.
SpecShutdown == InitShutdown /\ [][NextShutdown]_vars

\* NewRateLimitStore has returned a store (ratelimit.go:26-36).
InitBucket ==
    /\ RLFresh(AnyConfig)
    /\ IPIdle
    /\ ValIdle
    /\ SanIdle
    /\ StaticIdle
    /\ HdrIdle
    /\ CntIdle
    /\ ShutIdle
    /\ SeqIdle

NextBucket ==
    \/ StoreTick
    \/ CallAllow
    \/ Sweep

\* A store called by one goroutine, with any arguments, and swept.
SpecBucket == InitBucket /\ [][NextBucket]_vars

\* router.New has returned the router with an empty store (router.go:74).
InitChain ==
    /\ RLFresh(AnyConfig)
    /\ IPIdle
    /\ ValIdle
    /\ SanIdle
    /\ StaticIdle
    /\ HdrIdle
    /\ CntIdle
    /\ ShutIdle
    /\ aclock = 0
    /\ astore = [k \in Keys |-> Absent]
    /\ ahist = [k \in Keys |-> NoHist]
    /\ alast = NoRequest

NextChain ==
    \/ StoreTick
    \/ ServeRequest

\* Requests served one after another through the router's middlewares.
SpecChain == InitChain /\ [][NextChain]_vars

\* ----------------------------------------------------------------- claims

\* The refill interval of the configuration: window / maxRequests.
RefillInterval == cfg.window \div cfg.maxRequests

\* How many of the calls of log s were allowed.
AllowedCount(s) == Cardinality({ i \in 1..Len(s) : s[i].ok })

\* All calls made so far for key k went to the bucket that is still the key's
\* and lie less than one refill interval after the bucket's creation.
InOneBurst(k) ==
    /\ calls[k] # << >>
    /\ limiters[k] = calls[k][1].bucket
    /\ \A i \in 1..Len(calls[k]) :
          /\ calls[k][i].bucket = calls[k][1].bucket
          /\ calls[k][i].at - heap[calls[k][1].bucket].created < RefillInterval

\* C1: of the N calls made for one key within less than one refill interval
\* of its bucket's creation, in any interleaving, exactly min(N, maxRequests)
\* are allowed.
ThmC1_NoDoubleSpend ==
    \A k \in Keys :
        InOneBurst(k) =>
            AllowedCount(calls[k]) = Min(Len(calls[k]), cfg.maxRequests)

\* More calls than maxRequests were made in one burst and the last was denied.
WitC1_BurstOverLimit ==
    \E k \in Keys :
        /\ InOneBurst(k)
        /\ Len(calls[k]) > cfg.maxRequests
        /\ ~calls[k][Len(calls[k])].ok

\* C2: every bucket holds at least 0 and at most maxTokens tokens.
ThmC2_TokensInRange ==
    \A b \in Referenced(limiters, limiter) \ {NoBucket} :
        0 <= heap[b].tokens /\ heap[b].tokens <= heap[b].maxTokens

\* A call was denied at an empty bucket, and a refill has filled a bucket to
\* its capacity.
WitC2_EmptiedAndRefilled ==
    /\ \E k \in Keys : \E i \in 1..Len(calls[k]) : ~calls[k][i].ok
    /\ \E b \in Referenced(limiters, limiter) \ {NoBucket} :
          /\ heap[b].lastRefill > heap[b].created
          /\ heap[b].tokens = heap[b].maxTokens

\* The allowed calls of log s, among those for which Same(j) holds, made from
\* time t on and before time u.
AllowedWithin(s, t, u, Same(_)) ==
    Cardinality({ j \in 1..Len(s) : s[j].ok /\ Same(j) /\ t <= s[j].at /\ s[j].at < u })

RefillsPerWindow == (cfg.window + RefillInterval - 1) \div RefillInterval

AfterQuietWindow(s, j) ==
    /\ \E i \in 1..(j - 1) : s[i].ok
    /\ \A i \in 1..(j - 1) : s[i].ok => s[j].at - s[i].at >= cfg.window

\* C4: once a window has passed without an allowed call for a key, the next
\* maxRequests calls for it are all allowed.
ThmC4_FullAfterWindow ==
    \A k \in Keys : \A j \in 1..Len(calls[k]) :
        AfterQuietWindow(calls[k], j) =>
            \A i \in j..Min(j + cfg.maxRequests - 1, Len(calls[k])) : calls[k][i].ok

\* A bucket was exhausted (a call was denied), a window passed, and the next
\* maxRequests calls have been made.
WitC4_ReplenishedAfterDenial ==
    \E k \in Keys : \E j \in 1..Len(calls[k]) :
        /\ AfterQuietWindow(calls[k], j)
        /\ \E i \in 1..(j - 1) : ~calls[k][i].ok
        /\ Len(calls[k]) >= j + cfg.maxRequests - 1

\* The text of s before its first comma.
UpToComma(s) ==
    IF \E i \in 1..Len(s) : s[i] = ","
    THEN LET i == CHOOSE n \in 1..Len(s) : s[n] = "," /\ \A m \in 1..(n - 1) : s[m] # ","
         IN SubSeq(s, 1, i - 1)
    ELSE s

\* C5 as stated: the key is X-Real-IP if present, else the first entry of
\* X-Forwarded-For if present, else the connection address.
CexC5_RealIPFirst ==
    ckey.done =>
        ckey.key = IF creq.xri # NoStr THEN creq.xri
                   ELSE IF creq.xff # NoStr THEN UpToComma(creq.xff)
                   ELSE creq.remoteAddr

\* The text of a before its last colon: the IP of "IP:port".
HostPart(a) ==
    IF \E i \in 1..Len(a) : a[i] = ":"
    THEN LET i == CHOOSE n \in 1..Len(a) : a[n] = ":" /\ \A m \in (n + 1)..Len(a) : a[m] # ":"
         IN SubSeq(a, 1, i - 1)
    ELSE a

\* C6 as stated: without X-Forwarded-For and X-Real-IP the key is the IP part
\* of the connection address, whatever the port.
CexC6_KeyIsIPPart ==
    (ckey.done /\ creq.xff = NoStr /\ creq.xri = NoStr) =>
        ckey.key = HostPart(creq.remoteAddr)

\* C7: a denied request gets 429 with Retry-After and never reaches the
\* wrapped handler; an allowed request reaches it exactly once.
ThmC7_DeniedGets429 ==
    \A r \in served :
        /\ ~r.ok => (r.resp.status = 429 /\ r.resp.retryAfter # "" /\ r.resp.handled = 0)
        /\ r.ok => r.resp.handled = 1

\* Both a denied and an allowed request have been answered.
WitC7_BothAnswered ==
    /\ \E r \in served : r.ok
    /\ \E r \in served : ~r.ok

\* A step of an Allow call for another key leaves key k's entry and bucket
\* as they are.
OtherKeysUntouched ==
    \A p \in Procs : \A k \in Keys :
        ( /\ AllowLookup(p) \/ AllowRefill(p) \/ AllowReturn(p)
          /\ ip[p] # k
          /\ limiters[k] # NoBucket )
        => /\ limiters'[k] = limiters[k]
           /\ heap'[limiters[k]] = heap[limiters[k]]

\* The first maxRequests calls for a key are allowed, whatever was called
\* for other keys.
OwnQuota ==
    \A k \in Keys :
        \A i \in 1..Min(Len(calls[k]), cfg.maxRequests) : calls[k][i].ok

\* C8: an Allow call for one key leaves every other key's bucket unchanged,
\* and each key gets its own maxRequests allowed calls.
ThmC8_KeysIndependent == []OwnQuota /\ [][OtherKeysUntouched]_vars

\* One key has been denied, and a call made for another key no earlier was
\* allowed.
WitC8_OtherKeyStillAllowed ==
    \E k1 \in Keys : \E k2 \in Keys \ {k1} :
        \E i \in 1..Len(calls[k1]) :
            /\ ~calls[k1][i].ok
            /\ calls[k2] # << >>
            /\ calls[k2][1].ok
            /\ calls[k2][1].at >= calls[k1][i].at

\* ASCII letters, digits, hyphen and underscore, among the Alphabet.
SlugChars == { "a", "z", "A", "Z", "0", "9", "-", "_" }

\* Between 1 and 100 bytes, all of them letters, digits, hyphens, underscores.
WellFormedSlug(s) ==
    /\ 1 <= ByteLen(s)
    /\ ByteLen(s) <= 100
    /\ \A i \in 1..Len(s) : s[i] \in SlugChars

\* C9: ValidateSlug(s) is true exactly when s has 1 to 100 bytes, each an
\* ASCII letter, digit, hyphen or underscore.
ThmC9_SlugAccepted ==
    vslug.done => (vslug.ok <=> WellFormedSlug(vreq.slug))

\* A slug of exactly 100 bytes has been accepted.
WitC9_LongestSlugAccepted ==
    vslug.done /\ vslug.ok /\ ByteLen(vreq.slug) = 100

\* C10: a non-empty slug that is not well formed gets 400, whatever the
\* Content-Length; otherwise a Content-Length over 10*1024*1024 gets 413;
\* otherwise the wrapped handler runs.  On 400 and 413 it does not run.
ThmC10_ValidationOrder ==
    vresp.done =>
        vresp.resp =
            IF vreq.slug # << >> /\ ~WellFormedSlug(vreq.slug)
            THEN [status |-> 400, handled |-> 0]
            ELSE IF vreq.contentLength > 10 * 1024 * 1024
            THEN [status |-> 413, handled |-> 0]
            ELSE [status |-> 0, handled |-> 1]

\* A request with a bad slug and too large a body has been answered 400.
WitC10_BadSlugAndLargeBody ==
    /\ vresp.done
    /\ vreq.slug # << >> /\ ~WellFormedSlug(vreq.slug)
    /\ vreq.contentLength > 10 * 1024 * 1024
    /\ vresp.resp.status = 400

\* The text of f after its last slash or backslash.
FinalSegment(f) ==
    IF \E i \in 1..Len(f) : f[i] \in {"/", "\\"}
    THEN LET i == CHOOSE n \in 1..Len(f) :
                      f[n] \in {"/", "\\"} /\ \A m \in (n + 1)..Len(f) : f[m] \notin {"/", "\\"}
         IN SubSeq(f, i + 1, Len(f))
    ELSE f

\* C11 as stated: SanitizeFilename returns the final segment of its input,
\* whether the directories before it end in "/" or in "\" (for a final
\* segment that is a name, not empty, "." or ".."), and its result holds
\* neither "/" nor "\".
CexC11_FinalSegmentOnly ==
    fout.done =>
        /\ \A i \in 1..Len(fout.name) : fout.name[i] \notin {"/", "\\"}
        /\ FinalSegment(fname) \notin {<< >>, <<".">>, <<".", ".">>}
               => fout.name = FinalSegment(fname)

\* The path has no "..", no backslash and no NUL.
NoTraversalMark(path) ==
    \A i \in 1..Len(path) :
        /\ path[i] \notin {"\\", "NUL"}
        /\ i < Len(path) => ~(path[i] = "." /\ path[i + 1] = ".")

\* The path names the current directory: it is empty, or relative with only
\* empty and "." elements.
NamesCurrentDir(path) ==
    \/ path = << >>
    \/ /\ path[1] # "/"
       /\ \A i \in 1..Len(SplitSlash(path)) : SplitSlash(path)[i] \in {<< >>, <<".">>}

\* C12: a request whose path contains "..", a backslash or a NUL, or cleans
\* to ".", is answered 403 "Forbidden\n" without the file server; no path
\* handed to the file server has a ".." element.
ThmC12_TraversalForbidden ==
    sresp.done =>
        /\ (~NoTraversalMark(spath) \/ NamesCurrentDir(spath))
               => sresp.resp = [status |-> 403, body |-> "Forbidden\n", served |-> << >>]
        /\ \A i \in 1..Len(sresp.resp.served) :
               \A j \in 1..Len(SplitSlash(sresp.resp.served[i])) :
                   SplitSlash(sresp.resp.served[i])[j] # <<".", ".">>

\* A path with an allowed extension and a ".." element that cleaning would
\* remove has been answered 403.
WitC12_HiddenDotDotForbidden ==
    /\ sresp.done
    /\ sresp.resp.status = 403
    /\ ~NoTraversalMark(spath)
    /\ ~Contains(Clean(spath), <<".", ".">>)
    /\ Ext(spath) = <<".", "c", "s", "s">>

\* The allow-list of C13.
ClaimedExtensions ==
    { <<".", "c", "s", "s">>, <<".", "j", "s">>, <<".", "p", "n", "g">>,
      <<".", "j", "p", "g">>, <<".", "j", "p", "e", "g">>, <<".", "g", "i", "f">>,
      <<".", "i", "c", "o">>, <<".", "s", "v", "g">>, <<".", "w", "o", "f", "f">>,
      <<".", "w", "o", "f", "f", "2">>, <<".", "w", "e", "b", "p">>,
      <<".", "a", "v", "i", "f">> }

\* C13: a request whose path has a non-empty extension that, in lower case,
\* is not in the allow-list is answered 403 without the file server.
ThmC13_ExtensionForbidden ==
    (sresp.done /\ Ext(spath) # << >> /\ ToLower(Ext(spath)) \notin ClaimedExtensions)
        => (sresp.resp.status = 403 /\ sresp.resp.served = << >>)

\* A path free of traversal marks, with an upper-case extension that is not
\* allowed, has been answered 403.
WitC13_UpperCaseForbidden ==
    /\ sresp.done
    /\ NoTraversalMark(spath) /\ ~NamesCurrentDir(spath)
    /\ Ext(spath) # ToLower(Ext(spath))
    /\ ToLower(Ext(spath)) \notin ClaimedExtensions
    /\ sresp.resp.status = 403

\* C14 as stated: a request whose path has no extension is answered 403 and
\* never handed to the file server.
CexC14_NoExtensionForbidden ==
    (sresp.done /\ Ext(spath) = << >>)
        => (sresp.resp.status = 403 /\ sresp.resp.served = << >>)

\* C14, amended: a request whose path has no extension, and is not refused
\* for traversal, is handed to the file server and not answered 403.
ThmC14_NoExtensionServed ==
    (sresp.done /\ Ext(spath) = << >> /\ NoTraversalMark(spath) /\ ~NamesCurrentDir(spath))
        => (sresp.resp.status # 403 /\ sresp.resp.served = <<spath>>)

\* The root path "/" has been handed to the file server.
WitC14_RootServed ==
    /\ sresp.done
    /\ spath = <<"/">>
    /\ sresp.resp.served = <<spath>>

\* C15: SecureHeaders sets Strict-Transport-Security exactly when the
\* request came over TLS or carries X-Forwarded-Proto: https; on any other
\* request it leaves the header as it found it.
ThmC15_HSTSOnlyOnHTTPS ==
    hpc = "next" =>
        IF hreq.tls \/ hreq.proto = "https"
        THEN hw["Strict-Transport-Security"] = "max-age=31536000; includeSubDomains; preload"
        ELSE hw["Strict-Transport-Security"] = hpre["Strict-Transport-Security"]

\* A request without TLS but with X-Forwarded-Proto: https got the header.
WitC15_ForwardedProtoHTTPS ==
    /\ hpc = "next"
    /\ ~hreq.tls /\ hreq.proto = "https"
    /\ hpre["Strict-Transport-Security"] = ""
    /\ hw["Strict-Transport-Security"] # ""

\* C16: in the final response Server and X-Powered-By carry what the wrapped
\* handler set, and are absent if it set nothing, whatever was there before
\* the middleware ran.
ThmC16_ServerInfoRemovedBefore ==
    hpc = "done" =>
        \A n \in {"Server", "X-Powered-By"} : hw[n] = hsets[n]

\* Both headers were present before; the handler set only X-Powered-By; the
\* response is complete.
WitC16_PresetGoneHandlerKept ==
    /\ hpc = "done"
    /\ hpre["Server"] # "" /\ hpre["X-Powered-By"] # ""
    /\ hsets["Server"] = "" /\ hsets["X-Powered-By"] # ""
    /\ hw["Server"] = "" /\ hw["X-Powered-By"] = hsets["X-Powered-By"]

\* The last request was a GetPost for a slug that no published post has.
UnknownPostRequested ==
    /\ clast.handler = "GetPost"
    /\ clast.slug # ""
    /\ \A i \in 1..Len(posts) : ~(posts[i].slug = clast.slug /\ posts[i].published)

\* C17 as stated: a lookup of a slug no published post has is answered 404
\* with a JSON body containing "not found".
CexC17_NotFoundJSON ==
    UnknownPostRequested =>
        /\ clast.resp.status = 404
        /\ clast.resp.ctype = "application/json"
        /\ Contains(clast.resp.body, <<"not", "found">>)

\* C17, amended: a lookup of a slug no published post has is answered 404
\* with the plain-text body "Blog post not found\n".
ThmC17_NotFoundPlainText ==
    UnknownPostRequested =>
        /\ clast.resp.status = 404
        /\ clast.resp.ctype = "text/plain; charset=utf-8"
        /\ clast.resp.body = <<"Blog", "post", "not", "found", "\n">>

\* With posts loaded, GET /blog/unknown-slug has been answered 404.
WitC17_UnknownSlug404 ==
    /\ UnknownPostRequested
    /\ clast.slug = "unknown-slug"
    /\ posts # << >>
    /\ clast.resp.status = 404

\* The entry can be parsed as a post: a readable .md file with front matter
\* between two delimiters.
Parsable(f) == ~f.isDir /\ f.md /\ f.readable /\ f.parts >= 3

\* C18 as stated: once loading is over, every entry of the post list comes
\* from a file that could be parsed, one entry per such file; files that
\* could not are skipped.
CexC18_MalformedSkipped ==
    cpc = "serving" =>
        /\ \A i \in 1..Len(posts) : Parsable(files[posts[i].src])
        /\ posts # << >> =>
               Len(posts) = Cardinality({ i \in 1..Len(files) : Parsable(files[i]) })

\* The index of the first entry of ps with the slug.
FirstWithSlug(ps, slug) ==
    CHOOSE i \in 1..Len(ps) : ps[i].slug = slug /\ \A j \in 1..(i - 1) : ps[j].slug # slug

\* C19: when entries of the list have the requested slug, GetPost and
\* GetProject render the first of them in list order (or fail to render),
\* never a later one.
ThmC19_FirstMatchWins ==
    /\ (clast.handler = "GetPost" /\ clast.slug # ""
            /\ \E i \in 1..Len(posts) : posts[i].slug = clast.slug)
         => \/ clast.resp.status = 500
            \/ /\ clast.resp.status = 200
               /\ clast.resp.page =
                      [kind |-> "BlogPost",
                       arg |-> <<posts[FirstWithSlug(posts, clast.slug)]>>]
    /\ (clast.handler = "GetProject" /\ clast.slug # ""
            /\ \E i \in 1..Len(projects) : projects[i].slug = clast.slug)
         => \/ clast.resp.status = 500
            \/ /\ clast.resp.status = 200
               /\ clast.resp.page =
                      [kind |-> "ProjectDetail",
                       arg |-> <<projects[FirstWithSlug(projects, clast.slug)]>>]

\* Two posts share the requested slug and the first has been rendered.
WitC19_DuplicateSlugRendered ==
    /\ clast.handler = "GetPost"
    /\ clast.resp.status = 200
    /\ \E i, j \in 1..Len(posts) :
          /\ i < j
          /\ posts[i].slug = clast.slug /\ posts[j].slug = clast.slug
          /\ posts[i] # posts[j]
          /\ clast.resp.page.arg = <<posts[FirstWithSlug(posts, clast.slug)]>>

\* Once the handlers serve, a step changes neither list.
ContentKept == cpc = "serving" => (posts' = posts /\ projects' = projects)

\* C20: no ListPosts, GetPost, ListProjects or GetProject request changes
\* the post list or the project list.
ThmC20_ContentFixed == [][ContentKept]_vars

\* A post that is not the first of a list of several has been rendered.
WitC20_LaterPostRendered ==
    /\ clast.handler = "GetPost"
    /\ clast.resp.status = 200
    /\ Len(posts) >= 2
    /\ clast.resp.page.arg # <<posts[1]>>

\* C21 as stated: when the process has exited after a signal, every request
\* that was in flight at the signal has completed, and the exit came no later
\* than the deadline.
CexC21_AllInFlightCompleted ==
    sphase = "exited" =>
        /\ \A c \in satsignal : sconns[c] = "done"
        /\ selapsed <= ShutdownTimeout

\* C21, amended: the process exits no later than the deadline; a request in
\* flight at the signal has completed at the exit unless it was still running
\* at the deadline, and then the process exits with status 1 and the request
\* is dropped; an exit with status 0 drops no request.
ThmC21_CompletedOrDeadline ==
    sphase = "exited" =>
        /\ selapsed <= ShutdownTimeout
        /\ \A c \in ConnIds : sconns[c] # "active"
        /\ \A c \in ConnIds :
              sconns[c] = "dropped" =>
                  c \in satsignal /\ sexit = 1 /\ selapsed = ShutdownTimeout
        /\ \A c \in satsignal : sconns[c] \in {"done", "dropped"}
        /\ sexit = 0 => \A c \in satsignal : sconns[c] = "done"

\* Two requests were in flight at the signal; one completed during the
\* shutdown and the other was dropped at the deadline.
WitC21_OneCompletedOneDropped ==
    /\ sphase = "exited"
    /\ \E c, d \in satsignal : sconns[c] = "done" /\ sconns[d] = "dropped"

Evicts(k) == SweepEntry(k) /\ limiters[k] # NoBucket /\ limiters'[k] = NoBucket

\* C23 as stated: whenever a sweep deletes the entry of an IP, every Allow
\* call made for that IP, allowed or denied, lies an hour or more before the
\* sweep.
CexC23_EvictedAfterIdleHour ==
    [][\A k \in Keys :
          Evicts(k) => \A i \in 1..Len(calls[k]) : snow - calls[k][i].at >= Hour]_vars

\* C24 as stated: the bucket an Allow call has looked up stays the bucket of
\* its IP in the map until the call has finished its bookkeeping, so that
\* all calls for one IP that are under way use one bucket.
CexC24_LookedUpBucketStaysMapped ==
    \A p \in Procs : limiter[p] # NoBucket => limiters[ip[p]] = limiter[p]

\* Some goroutine is inside Allow, or the sweep is inside its pass.
Busy == (\E p \in Procs : pc[p] # "idle") \/ spc = "scan"

\* One of the goroutines inside Allow or the sweep can take its next step.
CanStep ==
    \/ \E p \in Procs :
          \/ ENABLED AllowLock(p)
          \/ ENABLED AllowLookup(p)
          \/ ENABLED AllowRefill(p)
          \/ ENABLED AllowReturn(p)
    \/ \E k \in Keys : ENABLED SweepEntry(k)
    \/ ENABLED SweepEnd

\* C25: Allow calls and the sweep never block each other for good: whenever
\* one of them is under way, one of them can take a step; under fair
\* scheduling every Allow call returns and every pass of the sweep ends with
\* the store's lock released.
ThmC25_NoDeadlock ==
    /\ [](Busy => CanStep)
    /\ \A p \in Procs : (pc[p] # "idle") ~> (pc[p] = "idle")
    /\ (rmutex = Sweeper) ~> (rmutex # Sweeper /\ spc = "wait")

\* A call waits for the store's lock while the sweep holds it, and another
\* call holds the lock of a bucket the sweep has still to visit.
WitC25_SweepAndCallsContend ==
    /\ spc = "scan"
    /\ \E p \in Procs : pc[p] = "rlock"
    /\ \E q \in Procs : \E k \in todo :
          pc[q] = "take" /\ limiters[k] = limiter[q]

\* Bucket b has the same tokens and lastRefill after the step as before it.
SameBucketState(b) ==
    /\ heap'[b].tokens = heap[b].tokens
    /\ heap'[b].lastRefill = heap[b].lastRefill

\* The two steps of a call under the bucket's lock leave the bucket as it
\* was when the call is denied.
DeniedLeavesBucket ==
    \A p \in Procs :
        /\ (AllowRefill(p) /\ ~avail'[p]) => SameBucketState(limiter[p])
        /\ (AllowReturn(p) /\ ~avail[p] /\ limiter[p] \in Referenced(limiters', limiter'))
              => SameBucketState(limiter[p])

\* C26: a call that Allow denies leaves the tokens and lastRefill of its
\* bucket as they were; a call that credits a token is allowed.
ThmC26_DeniedCallNoEffect == [][DeniedLeavesBucket]_vars

\* A call is denied some time after the last refill of its bucket, before a
\* whole refill interval has passed.
WitC26_DeniedBetweenRefills ==
    \E p \in Procs :
        /\ pc[p] = "take" /\ ~avail[p]
        /\ clock > heap[limiter[p]].lastRefill

\* C27 as stated: as long as no credit has brought a bucket to maxTokens, the
\* tokens credited to it since its creation are floor((time of the last
\* call - time of creation) / refillRate).
CexC27_NoAccruedTimeLost ==
    \A k \in Keys :
        (astore[k] # Absent /\ ~ahist[k].capped) =>
            ahist[k].credited =
                (ahist[k].lastCall - astore[k].created) \div astore[k].refillRate

\* C28: a call for an IP that has an entry leaves the entry's maxTokens and
\* refillRate as the call that created the entry set them, whatever its own
\* maxRequests and window, and is decided by the tokens of that entry.
ThmC28_CapacityFixedAtCreation ==
    alast.existed =>
        LET first == ahist[alast.key].first
            refilled == Refill(alast.before, alast.at)
        IN /\ alast.after.maxTokens = first.maxRequests
           /\ alast.after.refillRate = first.window \div first.maxRequests
           /\ alast.after.maxTokens = alast.before.maxTokens
           /\ alast.after.refillRate = alast.before.refillRate
           /\ alast.ok <=> refilled.tokens > 0
           /\ alast.after.tokens = refilled.tokens - (IF alast.ok THEN 1 ELSE 0)

\* A call with a larger maxRequests and another refill interval than the
\* entry was created with has been denied.
WitC28_LargerLimitDenied ==
    /\ alast.existed /\ ~alast.ok
    /\ alast.maxRequests > alast.before.maxTokens
    /\ alast.window \div alast.maxRequests # alast.before.refillRate

\* The last request is one InputValidation rejects.
RejectedByValidation ==
    /\ alast.n > 0
    /\ InputValidation(alast.req.slug, alast.req.contentLength).handled = 0

\* C29: a request that InputValidation rejects gets its 400 or 413 without
\* RateLimit running and leaves the limiter map as it was; a request that
\* passes validation reaches RateLimit, and the map is as Allow leaves it.
ThmC29_ValidationBeforeRateLimit ==
    alast.n > 0 =>
        LET InChain(m) == \E i \in 1..Len(alast.resp.ran) : alast.resp.ran[i] = m
        IN /\ RejectedByValidation =>
                 /\ alast.resp.status \in {400, 413}
                 /\ alast.resp.handled = 0
                 /\ ~InChain("RateLimit")
                 /\ alast.resp.limiters = alast.before
           /\ ~RejectedByValidation =>
                 /\ InChain("RateLimit")
                 /\ alast.resp.limiters =
                        Allow(alast.before, getClientIP(alast.req.r),
                              RouterMaxRequests, RouterWindow, alast.at).limiters

\* A client that has spent tokens sends a request that is rejected with 400,
\* and its bucket is as before.
WitC29_RejectedKeepsTokens ==
    /\ RejectedByValidation
    /\ alast.resp.status = 400
    /\ LET k == getClientIP(alast.req.r)
       IN /\ alast.before[k] # Absent
          /\ alast.before[k].tokens < RouterMaxRequests
          /\ astore[k] = alast.before[k]

\* C30 as stated: sanitizing the result of SanitizeFilename again gives the
\* same name, and the result is never "..".
CexC30_Idempotent ==
    fout.done =>
        /\ SanitizeFilename(fout.name) = fout.name
        /\ fout.name # DotDot

====
